---- MODULE Spec2Model ----
(***************************************************************************)
(* Model of the draw controller of dwv (src/src/app/drawController.js).    *)
(*                                                                         *)
(* The scene graph is an arena: `nodes` is the sequence of every node ever *)
(* created, a node instance is its index, node 1 is the layer root.  Each  *)
(* node carries its name (role), its id, its visible flag, its parent (0   *)
(* when detached) and the ordered list of its children.  The children of   *)
(* an annotation group (shape, decorations, label with its text, anchors)  *)
(* are kept as fields of the group: hasShape with the shape's className,   *)
(* closed flag and stroke; extras, the names of the decorations in order,  *)
(* with their colour; hasLabel with the label's visible flag, the fill of  *)
(* the label's children, the text's shadow colour, content and meta; the   *)
(* number of anchors; xtexts, the number of text-named nodes after the     *)
(* label's.                                                                *)
(***************************************************************************)
EXTENDS Integers, Sequences, FiniteSets, TLC

VARIABLES nodes, currentPosGroupId, cmds, cursor, made, last

vars == <<nodes, currentPosGroupId, cmds, cursor, made, last>>

(***************************************************************************)
(* Bounds of the model.                                                    *)
(***************************************************************************)
\* most node instances ever created (the layer root included)
MaxNodes == 6
\* most commands ever handed to the caller's history
MaxCmds == 2

(***************************************************************************)
(* Values.                                                                 *)
(***************************************************************************)
\* the layer root is the first node of the arena
konvaLayer == 1
\* no node: a null parent, an undefined search result, a null return
NoNode == 0
\* the value of #currentPosGroupId before any activation (null)
NullId == "<null>"
\* the id a node reports when none is stored
EmptyId == ""
\* text.meta of a group that was given none
NoMeta == "<undefined>"
PositionGroupName == "position-group"
DrawGroupName == "draw-group"
LayerName == "layer"

\* positions (Index values) and scroll indices the viewer activates
Indices == {<<0, 0, 0>>, <<0, 0, 1>>}
ScrollIndices == {2}
\* ids of annotation groups
GroupIds == {"g1", "g2"}

\* the attributes of the children of an annotation group a scene carries
\* for a group that says nothing about them
PlainDraw ==
  [className |-> "Line", closed |-> FALSE, extras |-> <<>>, stroke |-> "yellow",
   extraColour |-> "yellow", fill |-> "yellow", shadowColor |-> "#000",
   labelVisible |-> TRUE, anchors |-> 0, xtexts |-> 0]

NewNode(name, id, visible, parent) ==
  [name |-> name, id |-> id, visible |-> visible, parent |-> parent,
   kids |-> <<>>, hasShape |-> FALSE, hasLabel |-> FALSE, meta |-> NoMeta,
   text |-> "", draw |-> PlainDraw]

(***************************************************************************)
(* Node predicates.                                                        *)
(***************************************************************************)
isPositionNode(N, n) == N[n].name = PositionGroupName

isNodeWithId(N, n, id) == N[n].id = id

(***************************************************************************)
(* The scene graph capabilities the controller consumes.                   *)
(***************************************************************************)
\* node.getChildren(): the ordered children
getChildren(N, n) == N[n].kids

\* node.remove(): detach from the parent, keep the node
removeNode(N, g) ==
  IF N[g].parent = NoNode THEN N
  ELSE [N EXCEPT ![N[g].parent].kids = SelectSeq(@, LAMBDA x : x # g),
                 ![g].parent = NoNode]

\* container.add(child): append; a child that has another parent is moved,
\* a child of this container stays where it is
addNode(N, p, g) ==
  IF N[g].parent = p THEN N
  ELSE LET N1 == removeNode(N, g)
       IN [N1 EXCEPT ![p].kids = Append(@, g), ![g].parent = p]

\* whether node g is in the tree of the layer root
RECURSIVE inTree(_, _)
inTree(N, g) ==
  IF g = konvaLayer THEN TRUE
  ELSE IF N[g].parent = NoNode THEN FALSE
  ELSE inTree(N, N[g].parent)

\* the first element of a sequence of nodes, NoNode when it is empty ([0])
First(s) == IF s = <<>> THEN NoNode ELSE s[1]

\* container.findOne('#' + id): depth first, parents before children
RECURSIVE findIn(_, _, _)
findIn(N, s, id) ==
  IF s = <<>> THEN NoNode
  ELSE IF N[Head(s)].id = id THEN Head(s)
  ELSE LET below == findIn(N, N[Head(s)].kids, id)
       IN IF below # NoNode THEN below ELSE findIn(N, Tail(s), id)

findOne(N, id) == findIn(N, N[konvaLayer].kids, id)

(***************************************************************************)
(* Position group ids.                                                     *)
(***************************************************************************)
\* index.toStringId(dims): '#<dim>-<value>' for each dimension, joined by '_'
RECURSIVE toStringId(_, _)
toStringId(index, dims) ==
  IF dims = <<>> THEN ""
  ELSE LET d == Head(dims)
           one == "#" \o ToString(d) \o "-" \o ToString(index[d + 1])
       IN IF Tail(dims) = <<>> THEN one
          ELSE one \o "_" \o toStringId(index, Tail(dims))

\* the dimensions activateDrawLayer keeps: the scroll one, then 3 and up
activeDims(index, scrollIndex) ==
  <<scrollIndex>> \o [j \in 1..(IF Len(index) > 3 THEN Len(index) - 3 ELSE 0) |-> j + 2]

PosKeys == {toStringId(i, activeDims(i, s)) : i \in Indices, s \in ScrollIndices}

(***************************************************************************)
(* Mutation commands (tools/drawCommands).  A command keeps the group it   *)
(* is about and the parent the group had when the command was built.  snap *)
(* is the affected group as it was right after the first execute, kept for *)
(* the reversibility check.                                                *)
(***************************************************************************)
\* the affected subtree of a group: its parent, its children, its membership
snapOf(N, g) == [parent |-> N[g].parent, kids |-> N[g].kids, inTree |-> inTree(N, g)]

newCommand(N, kind, g) ==
  [kind |-> kind, group |-> g, parent |-> N[g].parent, snap |-> snapOf(N, g)]

\* the position groups under the layer root with a given id
posGroupsWithId(N, id) ==
  SelectSeq(N[konvaLayer].kids, LAMBDA n : isPositionNode(N, n) /\ N[n].id = id)

\* whether executing a command has to create its position group
executeCreates(N, c) ==
  /\ c.kind = "draw"
  /\ c.parent # NoNode
  /\ posGroupsWithId(N, N[c.parent].id) = <<>>

\* DrawGroupCommand.execute: put the group under its position group, created
\* when absent; DeleteGroupCommand.execute: detach the group
executeCommand(N, c) ==
  IF c.kind = "draw"
  THEN IF c.parent = NoNode THEN N
       ELSE LET key == N[c.parent].id
                found == posGroupsWithId(N, key)
            IN IF found = <<>>
               THEN LET N1 == Append(N, NewNode(PositionGroupName, key, TRUE, NoNode))
                        N2 == addNode(N1, konvaLayer, Len(N1))
                    IN addNode(N2, Len(N1), c.group)
               ELSE addNode(N, found[1], c.group)
  ELSE removeNode(N, c.group)

\* DrawGroupCommand.undo: detach the group; DeleteGroupCommand.undo: put the
\* group back under the parent it had
undoCommand(N, c) ==
  IF c.kind = "draw" THEN removeNode(N, c.group)
  ELSE IF c.parent = NoNode THEN N
  ELSE addNode(N, c.parent, c.group)

(***************************************************************************)
(* The running state of a handler: the arena, the commands handed to       *)
(* exeCallback, the groups the commands built so far are about, the calls  *)
(* of cmdCallback and exeCallback, ok = no exception so far, and the log   *)
(* of what was done with each command, in order.                           *)
(***************************************************************************)
Running(N) ==
  [N |-> N, cmds |-> <<>>, targets |-> <<>>, nOnCommand |-> 0,
   nOnExecuted |-> 0, ok |-> TRUE, log |-> <<>>]

\* one entry of the log: what was done, the group of the command, and the
\* meta the group's text had then
Event(ev, N, g) == [ev |-> ev, group |-> g, meta |-> N[g].meta]

\* the log of building a command and setting its two callback slots
wired(N, g) ==
  <<Event("new", N, g), Event("onExecute=", N, g), Event("onUndo=", N, g)>>

\* the log of execute(), which calls onExecute, and of exeCallback after it
executed(N, g) ==
  <<Event("execute", N, g), Event("onCommand", N, g), Event("onExecuted", N, g)>>

\* deleteDrawGroup leaving the command unexecuted
deleteDrawGroupNoExecute(R, group) ==
  LET delcmd == newCommand(R.N, "delete", group)
  IN [R EXCEPT !.cmds = Append(@, delcmd),
               !.targets = Append(@, group),
               !.nOnExecuted = @ + 1,
               !.log = @ \o wired(R.N, group) \o <<Event("onExecuted", R.N, group)>>]

deleteDrawGroup(R, group) ==
  LET delcmd == newCommand(R.N, "delete", group)
      N1 == executeCommand(R.N, delcmd)
  IN [R EXCEPT !.N = N1,
               !.cmds = Append(@, [delcmd EXCEPT !.snap = snapOf(N1, group)]),
               !.targets = Append(@, group),
               !.nOnCommand = @ + 1,
               !.nOnExecuted = @ + 1,
               !.log = @ \o wired(R.N, group) \o executed(R.N, group)]

\* getGroup: the node with this id, NoNode (undefined) when there is none
getGroup(N, id) == findOne(N, id)

\* deleteDraw finding the group among the layer's direct children only
deleteDrawTopOnly(R, id) ==
  LET group == First(SelectSeq(R.N[konvaLayer].kids, LAMBDA n : R.N[n].id = id))
  IN IF group = NoNode THEN [R EXCEPT !.ok = FALSE]
     ELSE deleteDrawGroup(R, group)

\* deleteDraw handing over a command it did not execute
deleteDrawNoExecute(R, id) ==
  LET group == getGroup(R.N, id)
  IN IF group = NoNode THEN [R EXCEPT !.ok = FALSE]
     ELSE deleteDrawGroupNoExecute(R, group)

\* deleteDraw: ok is the returned boolean
deleteDraw(R, id) ==
  LET group == getGroup(R.N, id)
  IN IF group = NoNode THEN [R EXCEPT !.ok = FALSE]
     ELSE deleteDrawGroup(R, group)

\* the loop of deleteDraws: groups is the live list of the layer's children
RECURSIVE deleteDrawsLoop(_)
deleteDrawsLoop(R) ==
  LET groups == getChildren(R.N, konvaLayer)
  IN IF Len(groups) = 0 THEN R
     ELSE deleteDrawsLoop(deleteDrawGroup(R, groups[1]))

\* the loop of deleteDraws stopping one group early
RECURSIVE deleteDrawsLoopShort(_)
deleteDrawsLoopShort(R) ==
  LET groups == getChildren(R.N, konvaLayer)
  IN IF Len(groups) <= 1 THEN R
     ELSE deleteDrawsLoopShort(deleteDrawGroup(R, groups[1]))

deleteDrawsShort(R) == deleteDrawsLoopShort(R)

deleteDraws(R) == deleteDrawsLoop(R)

(***************************************************************************)
(* Scenes to load.  A persisted scene is a list of top nodes, each with    *)
(* its name, its id and its annotation groups; an annotation group has its *)
(* id and whether it holds a shape child and a label child.                *)
(***************************************************************************)
Kid(id, hasShape, hasLabel) ==
  [id |-> id, hasShape |-> hasShape, hasLabel |-> hasLabel, draw |-> PlainDraw]

Top(name, id, kids) == [name |-> name, id |-> id, kids |-> kids]

Scenes ==
  { <<Top(PositionGroupName, "#2-0", <<Kid("g1", TRUE, TRUE)>>)>>,
    <<Top(PositionGroupName, "#2-1", <<Kid("g1", TRUE, TRUE), Kid("g2", TRUE, TRUE)>>)>>,
    <<Top(PositionGroupName, "#2-0", <<Kid("g1", TRUE, TRUE)>>),
      Top(PositionGroupName, "#2-0", <<Kid("g2", TRUE, TRUE)>>)>>,
    <<Top(PositionGroupName, "#2-1", <<Kid("g1", FALSE, TRUE), Kid("g2", TRUE, TRUE)>>)>>,
    <<Top(PositionGroupName, "#2-0", <<Kid("g1", TRUE, TRUE), Kid("g2", TRUE, FALSE)>>)>>,
    <<Top(DrawGroupName, "other", <<Kid("g2", TRUE, TRUE)>>),
      Top(PositionGroupName, "#2-1", <<Kid("g1", TRUE, TRUE)>>)>> }

\* drawingsDetails: not given, or a map from group ids to the text's meta
NoDetails == [given |-> FALSE, map |-> [i \in {} |-> "m"]]

DetailsChoices ==
  { NoDetails,
    [given |-> TRUE, map |-> [i \in {"g1", "g2"} |-> "m"]],
    [given |-> TRUE, map |-> [i \in {"g1"} |-> "m"]] }

\* the number of nodes Konva.Node.create builds for a scene
RECURSIVE sceneSize(_)
sceneSize(scene) ==
  IF scene = <<>> THEN 1
  ELSE 1 + Len(Head(scene).kids) + sceneSize(Tail(scene))

RECURSIVE createKids(_, _, _)
createKids(N, p, kids) ==
  IF kids = <<>> THEN N
  ELSE LET k == Head(kids)
           N1 == Append(N, [NewNode(DrawGroupName, k.id, TRUE, p)
                              EXCEPT !.hasShape = k.hasShape, !.hasLabel = k.hasLabel,
                                     !.draw = k.draw])
       IN createKids([N1 EXCEPT ![p].kids = Append(@, Len(N1))], p, Tail(kids))

RECURSIVE createTops(_, _, _)
createTops(N, stateLayer, tops) ==
  IF tops = <<>> THEN N
  ELSE LET t == Head(tops)
           N1 == Append(N, NewNode(t.name, t.id, TRUE, stateLayer))
           p == Len(N1)
           N2 == [N1 EXCEPT ![stateLayer].kids = Append(@, p)]
       IN createTops(createKids(N2, p, t.kids), stateLayer, Tail(tops))

\* Konva.Node.create(drawings): the detached tree of the scene, its root
\* (the state layer) at Len(N) + 1, nodes numbered in the persisted order
createNode(N, scene) ==
  createTops(Append(N, NewNode(LayerName, EmptyId, TRUE, NoNode)), Len(N) + 1, scene)

(***************************************************************************)
(* Strings and the text's metadata.  A meta value names a metadata object; *)
(* MetaTable gives its template (textExpr) and its quantification, the     *)
(* list of the flags' keys with the values formatted for display.          *)
(***************************************************************************)
\* str.indexOf(pat): the place of the first occurrence, from 0; -1 if none
indexOf(str, pat) ==
  LET hits == {i \in 1..(Len(str) - Len(pat) + 1) : SubSeq(str, i, i + Len(pat) - 1) = pat}
  IN IF hits = {} THEN -1 ELSE (CHOOSE i \in hits : \A j \in hits : i <= j) - 1

\* str.replace(pat, by): the first occurrence replaced
replace(str, pat, by) ==
  LET i == indexOf(str, pat)
  IN IF i = -1 THEN str
     ELSE SubSeq(str, 1, i) \o by \o SubSeq(str, i + Len(pat) + 1, Len(str))

\* replaceFlags(inputStr, values): each flag '{key}' of the template
\* replaced by the value of the key
RECURSIVE replaceFlags(_, _)
replaceFlags(inputStr, values) ==
  IF values = <<>> THEN inputStr
  ELSE replaceFlags(replace(inputStr, "{" \o Head(values).key \o "}", Head(values).value),
                    Tail(values))

MetaTable ==
  [m |-> [textExpr |-> "{v} mm", quantification |-> <<[key |-> "v", value |-> "5.000"]>>],
   mNote |-> [textExpr |-> "note", quantification |-> <<>>],
   mEmpty |-> [textExpr |-> "", quantification |-> <<[key |-> "v", value |-> "5.000"]>>]]

Metas == DOMAIN MetaTable

\* the text of a Text node after setText(replaceFlags(meta.textExpr,
\* meta.quantification))
expanded(meta) == replaceFlags(MetaTable[meta].textExpr, MetaTable[meta].quantification)

(***************************************************************************)
(* setDrawings.                                                            *)
(***************************************************************************)
\* the inner loop of setDrawings: lenj iterations, each on the first child
\* that is left; an exception (no shape; with details given, no label, no
\* entry for the group's id, or an entry whose meta is undefined) ends the
\* call where it is
RECURSIVE setDrawingsKids(_, _, _, _, _)
setDrawingsKids(R, statePosGroup, posGroup, lenj, details) ==
  IF lenj = 0 \/ ~R.ok THEN R
  ELSE LET stateGroup == First(getChildren(R.N, statePosGroup))
           N1 == addNode(R.N, posGroup, stateGroup)
       IN IF ~N1[stateGroup].hasShape
          THEN [R EXCEPT !.N = N1, !.ok = FALSE]
          ELSE LET cmd == newCommand(N1, "draw", stateGroup)
                   gid == N1[stateGroup].id
               IN IF details.given
                     /\ (~N1[stateGroup].hasLabel \/ gid \notin DOMAIN details.map)
                  THEN [R EXCEPT !.N = N1,
                                 !.targets = Append(@, stateGroup),
                                 !.ok = FALSE,
                                 !.log = @ \o wired(N1, stateGroup)]
                  ELSE IF details.given /\ details.map[gid] = NoMeta
                  THEN [R EXCEPT !.N = [N1 EXCEPT ![stateGroup].meta = NoMeta],
                                 !.targets = Append(@, stateGroup),
                                 !.ok = FALSE,
                                 !.log = @ \o wired(N1, stateGroup)]
                  ELSE LET N2 == IF details.given
                                 THEN [N1 EXCEPT ![stateGroup].meta = details.map[gid],
                                                 ![stateGroup].text = expanded(details.map[gid])]
                                 ELSE N1
                           N3 == executeCommand(N2, cmd)
                       IN setDrawingsKids(
                            [R EXCEPT !.N = N3,
                                      !.cmds = Append(@, [cmd EXCEPT !.snap = snapOf(N3, stateGroup)]),
                                      !.targets = Append(@, stateGroup),
                                      !.nOnCommand = @ + 1,
                                      !.nOnExecuted = @ + 1,
                                      !.log = @ \o wired(N1, stateGroup)
                                                \o (IF details.given
                                                    THEN <<Event("meta=", N2, stateGroup)>>
                                                    ELSE <<>>)
                                                \o executed(N2, stateGroup)],
                            statePosGroup, posGroup, lenj - 1, details)

\* the outer loop of setDrawings creating a position group for every
\* incoming one
RECURSIVE setDrawingsGroupsAlwaysNew(_, _, _)
setDrawingsGroupsAlwaysNew(R, statePosGroups, details) ==
  IF statePosGroups = <<>> \/ ~R.ok THEN R
  ELSE LET statePosGroup == Head(statePosGroups)
           N1 == Append(R.N, NewNode(PositionGroupName, R.N[statePosGroup].id, FALSE, NoNode))
           posGroup == Len(N1)
           N2 == addNode(N1, konvaLayer, posGroup)
           R2 == setDrawingsKids([R EXCEPT !.N = N2], statePosGroup, posGroup,
                                 Len(getChildren(N2, statePosGroup)), details)
       IN setDrawingsGroupsAlwaysNew(R2, Tail(statePosGroups), details)

\* the outer loop of setDrawings: the live position group with the incoming
\* one's id, the first if several, created invisible if none
RECURSIVE setDrawingsGroups(_, _, _)
setDrawingsGroups(R, statePosGroups, details) ==
  IF statePosGroups = <<>> \/ ~R.ok THEN R
  ELSE LET statePosGroup == Head(statePosGroups)
           found == First(SelectSeq(getChildren(R.N, konvaLayer),
                            LAMBDA n : isNodeWithId(R.N, n, R.N[statePosGroup].id)))
           N1 == IF found = NoNode
                 THEN Append(R.N, NewNode(PositionGroupName, R.N[statePosGroup].id,
                                          FALSE, NoNode))
                 ELSE R.N
           posGroup == IF found = NoNode THEN Len(N1) ELSE found
           N2 == addNode(N1, konvaLayer, posGroup)
           R2 == setDrawingsKids([R EXCEPT !.N = N2], statePosGroup, posGroup,
                                 Len(getChildren(N2, statePosGroup)), details)
       IN setDrawingsGroups(R2, Tail(statePosGroups), details)

setDrawings(R, scene, details) ==
  LET stateLayer == Len(R.N) + 1
      N1 == createNode(R.N, scene)
      statePosGroups == SelectSeq(getChildren(N1, stateLayer),
                                  LAMBDA n : isPositionNode(N1, n))
  IN setDrawingsGroups([R EXCEPT !.N = N1], statePosGroups, details)

(***************************************************************************)
(* What the last call did, as its caller saw it: the operation, the node   *)
(* or boolean it returned, the groups its commands were built for, the     *)
(* calls of the two callbacks, its arguments.  rep: the call before was    *)
(* the same operation.  pending: the commands of the last building call    *)
(* that nothing but undo has touched since.  fresh: an undo of such a      *)
(* command, or the redo right after such an undo.  log: what the call did  *)
(* with each command it built, in order.                                   *)
(***************************************************************************)
Outcome(op) ==
  [op |-> op, ok |-> TRUE, ret |-> NoNode, targets |-> <<>>, nOnCommand |-> 0,
   nOnExecuted |-> 0, rep |-> FALSE, id |-> EmptyId, scene |-> <<>>,
   details |-> NoDetails, pending |-> 0, fresh |-> FALSE, log |-> <<>>]

OutcomeOf(op, R) ==
  [Outcome(op) EXCEPT !.ok = R.ok, !.targets = R.targets,
                      !.nOnCommand = R.nOnCommand, !.nOnExecuted = R.nOnExecuted,
                      !.pending = R.nOnExecuted, !.log = R.log]

Init ==
  /\ nodes = <<NewNode(LayerName, EmptyId, TRUE, NoNode)>>
  /\ currentPosGroupId = NullId
  /\ cmds = <<>>
  /\ cursor = 0
  /\ made = 0
  /\ last = Outcome("new")

\* the visibility pass of activateDrawLayer
setVisible(N, key) ==
  [n \in DOMAIN N |->
     IF N[n].parent = konvaLayer /\ isPositionNode(N, n)
     THEN [N[n] EXCEPT !.visible = (N[n].id = key)]
     ELSE N[n]]

activateDrawLayer(index, scrollIndex) ==
  LET key == toStringId(index, activeDims(index, scrollIndex))
  IN /\ currentPosGroupId' = key
     /\ nodes' = setVisible(nodes, key)
     /\ UNCHANGED <<cmds, cursor, made>>
     /\ last' = Outcome("activate")

\* the ids a new group may report after id(value): the value; for null,
\* null or no id at all, as the scene graph library decides
storedIds(value) == IF value = NullId THEN {NullId, EmptyId} ELSE {value}

\* getCurrentPosGroup adding a group whatever it found
getCurrentPosGroupAlwaysNew(stored) ==
  LET N1 == Append(nodes, NewNode(PositionGroupName, stored, TRUE, NoNode))
      posGroup == Len(N1)
  IN /\ Len(nodes) < MaxNodes
     /\ nodes' = addNode(N1, konvaLayer, posGroup)
     /\ last' = [Outcome("getActiveGroup") EXCEPT
                   !.ret = posGroup,
                   !.rep = (last.op = "getActiveGroup")]
     /\ UNCHANGED <<currentPosGroupId, cmds, cursor, made>>

getCurrentPosGroup(stored) ==
  LET posGroups == SelectSeq(getChildren(nodes, konvaLayer),
                             LAMBDA n : nodes[n].id = currentPosGroupId)
  IN /\ IF Len(posGroups) = 1
        THEN /\ nodes' = nodes
             /\ last' = [Outcome("getActiveGroup") EXCEPT
                           !.ret = posGroups[1],
                           !.rep = (last.op = "getActiveGroup")]
        ELSE IF Len(posGroups) = 0
        THEN LET N1 == Append(nodes, NewNode(PositionGroupName, stored, TRUE, NoNode))
                 posGroup == Len(N1)
             IN /\ Len(nodes) < MaxNodes
                /\ nodes' = addNode(N1, konvaLayer, posGroup)
                /\ last' = [Outcome("getActiveGroup") EXCEPT
                              !.ret = posGroup,
                              !.rep = (last.op = "getActiveGroup")]
        ELSE /\ nodes' = nodes
             /\ last' = [Outcome("getActiveGroup") EXCEPT
                           !.ret = NoNode,
                           !.rep = (last.op = "getActiveGroup")]
     /\ UNCHANGED <<currentPosGroupId, cmds, cursor, made>>

GetActiveGroup == \E stored \in storedIds(currentPosGroupId) : getCurrentPosGroup(stored)

Activate == \E index \in Indices, scrollIndex \in ScrollIndices :
              activateDrawLayer(index, scrollIndex)

\* the caller's undo stack taking the commands handed to exeCallback: what
\* was undone and not redone is dropped, the new commands go on top
stackAdd(R) ==
  /\ cmds' = IF R.cmds = <<>> THEN cmds ELSE SubSeq(cmds, 1, cursor) \o R.cmds
  /\ cursor' = IF R.cmds = <<>> THEN cursor ELSE cursor + Len(R.cmds)
  /\ made' = made + Len(R.cmds)

\* a call of setDrawings with the caller's two callbacks
loadScene(scene, details) ==
  /\ Len(nodes) + sceneSize(scene) <= MaxNodes
  /\ \E R \in {setDrawings(Running(nodes), scene, details)} :
     /\ Len(R.N) <= MaxNodes
     /\ made + Len(R.cmds) <= MaxCmds
     /\ nodes' = R.N
     /\ stackAdd(R)
     /\ last' = [OutcomeOf("loadScene", R) EXCEPT !.scene = scene, !.details = details]
     /\ UNCHANGED currentPosGroupId

LoadScene ==
  \E scene \in Scenes, details \in DetailsChoices : loadScene(scene, details)

DeleteIds == GroupIds \cup PosKeys \cup {"missing"}

DeleteById ==
  \E id \in DeleteIds :
    /\ made < MaxCmds
    /\ \E R \in {deleteDraw(Running(nodes), id)} :
       /\ nodes' = R.N
       /\ stackAdd(R)
       /\ last' = [OutcomeOf("deleteById", R) EXCEPT !.id = id]
       /\ UNCHANGED currentPosGroupId

DeleteAll ==
  /\ made + Len(getChildren(nodes, konvaLayer)) <= MaxCmds
  /\ \E R \in {deleteDraws(Running(nodes))} :
     /\ nodes' = R.N
     /\ stackAdd(R)
     /\ last' = OutcomeOf("deleteAll", R)
     /\ UNCHANGED currentPosGroupId

\* the history manager undoes the last command that is executed
Undo ==
  /\ cursor > 0
  /\ nodes' = undoCommand(nodes, cmds[cursor])
  /\ cursor' = cursor - 1
  /\ last' = [Outcome("undo") EXCEPT
                !.nOnCommand = 1,
                !.pending = IF last.pending > 0 THEN last.pending - 1 ELSE 0,
                !.fresh = (last.pending > 0)]
  /\ UNCHANGED <<currentPosGroupId, cmds, made>>

\* the history manager redoes (executes again) the last command undone
Redo ==
  /\ cursor < Len(cmds)
  /\ executeCreates(nodes, cmds[cursor + 1]) => Len(nodes) < MaxNodes
  /\ nodes' = executeCommand(nodes, cmds[cursor + 1])
  /\ cursor' = cursor + 1
  /\ last' = [Outcome("redo") EXCEPT
                !.nOnCommand = 1,
                !.fresh = (last.op = "undo" /\ last.fresh)]
  /\ UNCHANGED <<currentPosGroupId, cmds, made>>

Next ==
  \/ Activate
  \/ GetActiveGroup
  \/ LoadScene
  \/ DeleteById
  \/ DeleteAll
  \/ Undo
  \/ Redo

Spec == Init /\ [][Next]_vars

(***************************************************************************)
(* Properties.                                                             *)
(***************************************************************************)
\* the direct children of the layer root that are position groups
livePosGroups == {n \in DOMAIN nodes : nodes[n].parent = konvaLayer /\ isPositionNode(nodes, n)}

\* the annotation groups: the children of the position groups of the layer
liveGroups(N) ==
  {n \in DOMAIN N : /\ N[n].parent # NoNode
                    /\ N[N[n].parent].parent = konvaLayer
                    /\ isPositionNode(N, N[n].parent)}

\* C1: the layer root has at most one direct child position group per
\* position key, in every reachable state
C1_OneGroupPerKey ==
  \A a, b \in livePosGroups :
    (nodes[a].id \in PosKeys /\ nodes[a].id = nodes[b].id) => a = b

\* C2: once a key is active, a position group under the layer root is
\* visible if and only if its id is the active key
C2_VisibleIffActive ==
  currentPosGroupId # NullId =>
    \A p \in livePosGroups : nodes[p].visible <=> (nodes[p].id = currentPosGroupId)

\* C3: right after activate with key K, exactly one position group is
\* visible and its id is K when a group with id K exists, and none is
\* visible when no group has id K
C3_ActivateShowsOne ==
  last.op = "activate" =>
    LET shown == {p \in livePosGroups : nodes[p].visible}
        withKey == {p \in livePosGroups : nodes[p].id = currentPosGroupId}
    IN /\ withKey # {} => (Cardinality(shown) = 1 /\ shown \subseteq withKey)
       /\ withKey = {} => shown = {}

\* C4: a second getActiveGroup right after a first, with the same active
\* key, returns what the first returned and adds no node
C4_GetActiveGroupIdempotent ==
  [][(/\ last.op = "getActiveGroup"
      /\ last'.op = "getActiveGroup"
      /\ currentPosGroupId # NullId)
     => (/\ last'.ret = last.ret
         /\ nodes' = nodes
         /\ (last'.ret # NoNode =>
               /\ nodes'[last'.ret].parent = konvaLayer
               /\ nodes'[last'.ret].id = currentPosGroupId))]_vars

C4_Witness ==
  /\ last.op = "getActiveGroup"
  /\ last.rep
  /\ currentPosGroupId # NullId
  /\ last.ret # NoNode
  /\ nodes[last.ret].id = currentPosGroupId

C6_DeleteAllLeavesNone ==
  last.op = "deleteAll" => liveGroups(nodes) = {}

C6_Witness ==
  /\ last.op = "deleteAll"
  /\ \E i \in DOMAIN last.targets : nodes[last.targets[i]].kids # <<>>

\* C7: every command deleteAll builds is about one annotation group (a
\* child of a position group), and it builds one command per annotation
\* group that was there when it was called (stated for the calls that find
\* an annotation group)
C7_DeleteAllOnePerGroup ==
  [][(last'.op = "deleteAll" /\ liveGroups(nodes) # {})
     => (/\ \A i \in DOMAIN last'.targets : last'.targets[i] \in liveGroups(nodes)
         /\ Len(last'.targets) = Cardinality(liveGroups(nodes)))]_vars

\* whether some node of the layer's tree has this id
idInTree(N, id) ==
  \E n \in DOMAIN N : n # konvaLayer /\ inTree(N, n) /\ N[n].id = id

\* C8: deleteById with an id no node of the tree has returns false, builds
\* no command, calls no callback and changes nothing; with an id of the
\* tree it returns true, and a node that had the id is detached
C8_DeleteByIdMissing ==
  [][last'.op = "deleteById"
     => IF idInTree(nodes, last'.id)
        THEN /\ last'.ok
             /\ Len(last'.targets) = 1
             /\ nodes[last'.targets[1]].id = last'.id
             /\ inTree(nodes, last'.targets[1])
             /\ ~inTree(nodes', last'.targets[1])
             /\ nodes'[last'.targets[1]].parent = NoNode
        ELSE /\ ~last'.ok
             /\ last'.targets = <<>>
             /\ last'.nOnCommand = 0
             /\ last'.nOnExecuted = 0
             /\ nodes' = nodes
             /\ cmds' = cmds
             /\ cursor' = cursor]_vars

C8_Witness ==
  /\ last.op = "deleteById"
  /\ ~last.ok
  /\ liveGroups(nodes) # {}

\* the incoming annotation groups of a deserialised scene, in persisted
\* order: the children of the position groups of the state layer
incomingGroups(In, stateLayer) ==
  {g \in DOMAIN In : /\ In[g].parent # NoNode
                     /\ In[In[g].parent].parent = stateLayer
                     /\ isPositionNode(In, In[g].parent)}

C10_MalformedNotAttached ==
  [][last'.op = "loadScene"
     => LET stateLayer == Len(nodes) + 1
            In == createNode(nodes, last'.scene)
            malformed == {g \in incomingGroups(In, stateLayer) :
                            ~In[g].hasShape \/ ~In[g].hasLabel}
        IN malformed # {} =>
             /\ ~last'.ok
             /\ \A g \in malformed : ~inTree(nodes', g)]_vars

\* whether every incoming annotation group of a scene has a shape child and
\* a label child
wellFormed(In, stateLayer) ==
  \A g \in incomingGroups(In, stateLayer) : In[g].hasShape /\ In[g].hasLabel

\* C11: a loadScene with detailsById given, of a scene whose groups all
\* have a shape and a label, succeeds whether or not detailsById has an
\* entry for each group: every incoming group is re-parented into the live
\* tree, its command executed and onExecuted invoked once per group, and
\* the text's metadata is the entry's where there is one, untouched where
\* there is none
C11_MissingEntrySkipped ==
  [][(last'.op = "loadScene" /\ last'.details.given)
     => LET stateLayer == Len(nodes) + 1
            In == createNode(nodes, last'.scene)
            incoming == incomingGroups(In, stateLayer)
        IN wellFormed(In, stateLayer) =>
             /\ last'.ok
             /\ last'.nOnExecuted = Cardinality(incoming)
             /\ \A g \in incoming :
                  /\ inTree(nodes', g)
                  /\ \E i \in DOMAIN cmds' : cmds'[i].group = g
                  /\ nodes'[g].meta = (IF In[g].id \in DOMAIN last'.details.map
                                       THEN last'.details.map[In[g].id]
                                       ELSE In[g].meta)]_vars

\* C12: getActiveGroup before any activate returns no group and adds no
\* node to the layer root
C12_NotActivated ==
  [][(last'.op = "getActiveGroup" /\ currentPosGroupId = NullId)
     => (/\ last'.ret = NoNode
         /\ nodes' = nodes)]_vars

\* C13: when more than one direct child of the layer root has the active
\* key as id, getActiveGroup returns the first of them and creates no group
C13_DuplicateReturnsFirst ==
  [][last'.op = "getActiveGroup"
     => LET matches == SelectSeq(getChildren(nodes, konvaLayer),
                                 LAMBDA n : nodes[n].id = currentPosGroupId)
        IN Len(matches) > 1 =>
             /\ last'.ret = matches[1]
             /\ nodes' = nodes]_vars

(***************************************************************************)
(* Position keys as functions of the position.                             *)
(***************************************************************************)
\* most dimensions of a position
MaxLength == 5

\* positions of 3 to MaxLength dimensions
Positions == UNION {[1..n -> {0, 1}] : n \in 3..MaxLength}

\* point.get(i): the value of dimension i, dimensions counted from 0
get(point, i) == point[i + 1]

getDrawPositionGroupId(currentPosition) ==
  LET sliceNumber == get(currentPosition, 2)
      frameNumber == IF Len(currentPosition) = 4 THEN get(currentPosition, 3) ELSE 0
  IN "slice-" \o ToString(sliceNumber) \o "_frame-" \o ToString(frameNumber)

\* the key activateDrawLayer stores for a position and a scroll index
activeKey(index, scrollIndex) == toStringId(index, activeDims(index, scrollIndex))

\* the inputs: two positions of one length and a scroll index
InitKeys ==
  /\ nodes = <<NewNode(LayerName, EmptyId, TRUE, NoNode)>>
  /\ currentPosGroupId = NullId
  /\ cmds = <<>>
  /\ cursor = 0
  /\ made = 0
  /\ \E p1 \in Positions, p2 \in Positions, scrollIndex \in 0..2 :
       /\ Len(p1) = Len(p2)
       /\ last = [op |-> "positions", p1 |-> p1, p2 |-> p2, scrollIndex |-> scrollIndex]

\* the two positions resolved to their keys, by both mappings
ResolveKeys ==
  /\ last.op = "positions"
  /\ last' = [op |-> "resolveKeys", p1 |-> last.p1, p2 |-> last.p2,
              scrollIndex |-> last.scrollIndex,
              ids |-> <<getDrawPositionGroupId(last.p1), getDrawPositionGroupId(last.p2)>>,
              keys |-> <<activeKey(last.p1, last.scrollIndex),
                         activeKey(last.p2, last.scrollIndex)>>]
  /\ UNCHANGED <<nodes, currentPosGroupId, cmds, cursor, made>>

NextKeys == ResolveKeys

SpecKeys == InitKeys /\ [][NextKeys]_vars

\* whether two positions of one length differ in dimension d or in a
\* dimension of index 3 or higher
differTracked(p1, p2, d) ==
  \/ get(p1, d) # get(p2, d)
  \/ \E j \in 3..(Len(p1) - 1) : get(p1, j) # get(p2, j)

\* C17: two positions of the same length that differ in the scroll
\* dimension or in a dimension of index 3 or higher get different keys, by
\* activateDrawLayer and by getDrawPositionGroupId (scroll dimension 2)
C17_KeysInjective ==
  last.op = "resolveKeys" =>
    /\ differTracked(last.p1, last.p2, last.scrollIndex) => last.keys[1] # last.keys[2]
    /\ differTracked(last.p1, last.p2, 2) => last.ids[1] # last.ids[2]

\* the places of the entries of a log with this event about this group
places(log, ev, g) == {i \in DOMAIN log : log[i].ev = ev /\ log[i].group = g}

\* C20: for every command a loadScene, deleteById or deleteAll builds, both
\* callback slots are set before execute, execute is called exactly once,
\* onExecuted is invoked exactly once and after execute and its on-execute
\* callback; in a loadScene with detailsById the metadata is attached
\* before execute and the on-execute callback sees it
C20_CallbackOrder ==
  last.op \in {"loadScene", "deleteById", "deleteAll"} =>
    \A n \in DOMAIN last.log :
      last.log[n].ev = "new" =>
        LET g == last.log[n].group
            at(ev) == places(last.log, ev, g)
        IN /\ Cardinality(at("new")) = 1
           /\ Cardinality(at("onExecute=")) = 1
           /\ Cardinality(at("onUndo=")) = 1
           /\ Cardinality(at("execute")) = 1
           /\ Cardinality(at("onCommand")) = 1
           /\ Cardinality(at("onExecuted")) = 1
           /\ \A e \in at("execute") :
                /\ \A w \in at("onExecute=") \cup at("onUndo=") : n < w /\ w < e
                /\ \A c \in at("onCommand") : e < c
                /\ \A x \in at("onExecuted") : \A c \in at("onCommand") : c < x
                /\ (last.op = "loadScene" /\ last.details.given) =>
                     /\ \E m \in at("meta=") : m < e
                     /\ \A c \in at("onCommand") :
                          last.log[c].meta = last.details.map[nodes[g].id]

(***************************************************************************)
(* The details of the drawings: listing them for display and for storage,  *)
(* updating one.  The scenes loaded here say what shape, decorations,      *)
(* colour, label, anchors and texts each annotation group has.             *)
(***************************************************************************)
Colours == {"red", "blue"}

\* utils/colour getShadowColour: the shadow that goes with a text colour
getShadowColour(colour) == IF colour = "blue" THEN "#fff" ELSE "#000"

\* an annotation group of a scene with its shape's class, closed flag and
\* decorations
KidOf(id, className, closed, extras) ==
  [Kid(id, TRUE, TRUE) EXCEPT !.draw.className = className,
                              !.draw.closed = closed,
                              !.draw.extras = extras]

DrawnKids(id) ==
  { KidOf(id, "Line", TRUE, <<>>),
    KidOf(id, "Line", TRUE, <<"shape-triangle">>),
    KidOf(id, "Line", FALSE, <<"shape-triangle">>),
    KidOf(id, "Line", FALSE, <<"shape-arc">>),
    KidOf(id, "Line", FALSE, <<"shape-tick0", "shape-triangle">>),
    KidOf(id, "Line", FALSE, <<"shape-arc-triangle">>),
    KidOf(id, "Line", FALSE, <<>>),
    KidOf(id, "Rect", FALSE, <<>>),
    KidOf(id, "Circle", FALSE, <<"shape-arc">>) }

\* annotation groups with anchors, with a second text, without a label,
\* with a hidden label
OddKids(id) ==
  { [KidOf(id, "Line", FALSE, <<"shape-triangle">>) EXCEPT !.draw.anchors = 2],
    [KidOf(id, "Rect", FALSE, <<>>) EXCEPT !.draw.xtexts = 1, !.draw.anchors = 1],
    [Kid(id, TRUE, FALSE) EXCEPT !.draw.anchors = 1],
    [KidOf(id, "Line", TRUE, <<>>) EXCEPT !.draw.labelVisible = FALSE] }

DetailScenes ==
  {<<Top(PositionGroupName, "#2-0", <<k>>)>> : k \in DrawnKids("g1")}
  \cup {<<Top(PositionGroupName, "#2-1", <<k1, k2>>)>> :
          k1 \in OddKids("g1"), k2 \in OddKids("g2")}

DetailChoices ==
  { NoDetails,
    [given |-> TRUE, map |-> [i \in {"g1", "g2"} |-> IF i = "g1" THEN "m" ELSE "mNote"]] }

\* the children of these nodes, one list after the other
RECURSIVE kidsOfAll(_, _)
kidsOfAll(N, tops) ==
  IF tops = <<>> THEN <<>>
  ELSE getChildren(N, Head(tops)) \o kidsOfAll(N, Tail(tops))

\* the type taken from whichever decoration has the telling name
displayTypeAnyExtra(className, closed, shapeExtrakids) ==
  LET has(pat) == \E i \in DOMAIN shapeExtrakids : indexOf(shapeExtrakids[i], pat) # -1
      type == IF className = "Line"
              THEN IF closed THEN "Roi"
                   ELSE IF Len(shapeExtrakids) # 0
                   THEN IF has("triangle") THEN "Arrow"
                        ELSE IF has("arc") THEN "Protractor"
                        ELSE "Ruler"
                   ELSE className
              ELSE className
  IN IF type = "Rect" THEN "Rectangle" ELSE type

\* the type getDrawDisplayDetails reports for a shape and the decorations
\* beside it
displayType(className, closed, shapeExtrakids) ==
  LET type == IF className = "Line"
              THEN IF closed THEN "Roi"
                   ELSE IF Len(shapeExtrakids) # 0
                   THEN LET extraName0 == shapeExtrakids[1]
                        IN IF indexOf(extraName0, "triangle") # -1 THEN "Arrow"
                           ELSE IF indexOf(extraName0, "arc") # -1 THEN "Protractor"
                           ELSE "Ruler"
                   ELSE className
              ELSE className
  IN IF type = "Rect" THEN "Rectangle" ELSE type

\* getDrawDisplayDetails: the list, in the order of the tree; position is
\* kept as the id of the position group it is parsed from.  ok is FALSE
\* when a group has no label or no shape (the call throws)
getDrawDisplayDetails(N) ==
  LET collec == kidsOfAll(N, getChildren(N, konvaLayer))
      ok == \A i \in DOMAIN collec : N[collec[i]].hasLabel /\ N[collec[i]].hasShape
  IN [ok |-> ok,
      list |-> IF ~ok THEN <<>>
               ELSE [i \in DOMAIN collec |->
                       LET g == N[collec[i]]
                       IN [id |-> g.id,
                           position |-> N[g.parent].id,
                           type |-> displayType(g.draw.className, g.draw.closed, g.draw.extras),
                           color |-> g.draw.stroke,
                           meta |-> g.meta]]]

\* the text-named nodes of a group, by their meta: the label's text first
texts(N, group) ==
  (IF N[group].hasLabel THEN <<N[group].meta>> ELSE <<>>)
    \o [i \in 1..N[group].draw.xtexts |-> NoMeta]

\* the loop of getDrawStoreDetails over the annotation groups: the anchors
\* removed, a warning when the texts are not one, the meta of the first
\* text under the group's id; without a text the call throws
RECURSIVE storeDetailsLoop(_, _)
storeDetailsLoop(R, posKids) ==
  IF posKids = <<>> \/ ~R.ok THEN R
  ELSE LET group == Head(posKids)
           N1 == [R.N EXCEPT ![group].draw.anchors = 0]
           found == texts(N1, group)
           warned == IF Len(found) # 1 THEN R.warned + 1 ELSE R.warned
       IN IF found = <<>>
          THEN [R EXCEPT !.N = N1, !.warned = warned, !.ok = FALSE]
          ELSE storeDetailsLoop(
                 [R EXCEPT !.N = N1, !.warned = warned,
                           !.drawingsDetails = (N1[group].id :> found[1]) @@ @],
                 Tail(posKids))

getDrawStoreDetails(N) ==
  LET posGroups == SelectSeq(getChildren(N, konvaLayer), LAMBDA n : isPositionNode(N, n))
  IN storeDetailsLoop([N |-> N, drawingsDetails |-> <<>>, warned |-> 0, ok |-> TRUE],
                      kidsOfAll(N, posGroups))

\* updateDraw leaving the label's visibility alone
updateDrawKeepLabel(N, drawDetails) ==
  LET group == findOne(N, drawDetails.id)
  IN IF group = NoNode THEN [N |-> N, found |-> NoNode, ok |-> TRUE, draws |-> 0]
     ELSE LET N1 == IF N[group].hasShape
                    THEN [N EXCEPT ![group].draw.stroke = drawDetails.color]
                    ELSE N
              N2 == IF N1[group].draw.extras # <<>>
                    THEN [N1 EXCEPT ![group].draw.extraColour = drawDetails.color]
                    ELSE N1
          IN IF ~N2[group].hasLabel
             THEN [N |-> N2, found |-> group, ok |-> FALSE, draws |-> 0]
             ELSE LET N3 == [N2 EXCEPT
                               ![group].draw.fill = drawDetails.color,
                               ![group].draw.shadowColor = getShadowColour(drawDetails.color)]
                      N4 == IF drawDetails.meta # NoMeta
                            THEN [N3 EXCEPT
                                    ![group].meta = drawDetails.meta,
                                    ![group].text = expanded(drawDetails.meta)]
                            ELSE N3
                  IN [N |-> N4, found |-> group, ok |-> TRUE, draws |-> 1]

\* updateDraw changing the first annotation group when no node has the id
updateDrawFirstGroup(N, drawDetails) ==
  LET byId == findOne(N, drawDetails.id)
      group == IF byId # NoNode THEN byId
               ELSE First(kidsOfAll(N, getChildren(N, konvaLayer)))
  IN IF group = NoNode THEN [N |-> N, found |-> NoNode, ok |-> TRUE, draws |-> 0]
     ELSE [N |-> [N EXCEPT ![group].draw.stroke = drawDetails.color],
           found |-> byId, ok |-> TRUE, draws |-> 1]

\* updateDraw: found is the node with the id (NoNode: a warning and
\* nothing else), ok is FALSE when the node has no label (the call throws
\* after the shape and the decorations took the colour), draws counts the
\* calls of konvaLayer.draw()
updateDraw(N, drawDetails) ==
  LET group == findOne(N, drawDetails.id)
  IN IF group = NoNode THEN [N |-> N, found |-> NoNode, ok |-> TRUE, draws |-> 0]
     ELSE LET N1 == IF N[group].hasShape
                    THEN [N EXCEPT ![group].draw.stroke = drawDetails.color]
                    ELSE N
              N2 == IF N1[group].draw.extras # <<>>
                    THEN [N1 EXCEPT ![group].draw.extraColour = drawDetails.color]
                    ELSE N1
          IN IF ~N2[group].hasLabel
             THEN [N |-> N2, found |-> group, ok |-> FALSE, draws |-> 0]
             ELSE LET N3 == [N2 EXCEPT
                               ![group].draw.fill = drawDetails.color,
                               ![group].draw.shadowColor = getShadowColour(drawDetails.color)]
                      N4 == IF drawDetails.meta # NoMeta
                            THEN [N3 EXCEPT
                                    ![group].meta = drawDetails.meta,
                                    ![group].text = expanded(drawDetails.meta),
                                    ![group].draw.labelVisible =
                                       (Len(MetaTable[drawDetails.meta].textExpr) # 0)]
                            ELSE N3
                  IN [N |-> N4, found |-> group, ok |-> TRUE, draws |-> 1]

\* the persisted form of the tree under the layer: every node with its
\* name, id and drawable attributes; the text's meta and the expanded text
\* are not in it
RECURSIVE serializeKids(_, _)
serializeKids(N, groups) ==
  IF groups = <<>> THEN <<>>
  ELSE LET g == N[Head(groups)]
       IN <<[id |-> g.id, hasShape |-> g.hasShape, hasLabel |-> g.hasLabel,
             draw |-> g.draw]>> \o serializeKids(N, Tail(groups))

RECURSIVE serializeTops(_, _)
serializeTops(N, tops) ==
  IF tops = <<>> THEN <<>>
  ELSE LET t == N[Head(tops)]
       IN <<Top(t.name, t.id, serializeKids(N, t.kids))>> \o serializeTops(N, Tail(tops))

serialize(N) == serializeTops(N, getChildren(N, konvaLayer))

\* the text of every annotation group, in the order of the tree
labelTexts(N) ==
  LET collec == kidsOfAll(N, getChildren(N, konvaLayer))
  IN [i \in DOMAIN collec |-> [id |-> N[collec[i]].id, text |-> N[collec[i]].text]]

LoadDetails ==
  \E scene \in DetailScenes, details \in DetailChoices : loadScene(scene, details)

UpdateIds == GroupIds \cup {"#2-1", "missing"}

UpdateDraw ==
  \E id \in UpdateIds, color \in Colours, meta \in Metas \cup {NoMeta} :
    \E U \in {updateDraw(nodes, [id |-> id, color |-> color, meta |-> meta])} :
      /\ nodes' = U.N
      /\ last' = [op |-> "updateAnnotation", ok |-> U.ok, id |-> id, color |-> color,
                  meta |-> meta, found |-> U.found, draws |-> U.draws]
      /\ UNCHANGED <<currentPosGroupId, cmds, cursor, made>>

GetDrawStoreDetails ==
  \E S \in {getDrawStoreDetails(nodes)} :
    /\ nodes' = S.N
    /\ last' = [op |-> "listStoredDetails", ok |-> S.ok,
                drawingsDetails |-> IF S.ok THEN S.drawingsDetails ELSE <<>>,
                warned |-> S.warned]
    /\ UNCHANGED <<currentPosGroupId, cmds, cursor, made>>

\* the tree stored and loaded again: its stored details and its persisted
\* form handed to setDrawings of a new controller on an empty layer
Reload ==
  \E D \in {getDrawDisplayDetails(nodes)}, S \in {getDrawStoreDetails(nodes)} :
    /\ D.ok
    /\ S.ok
    /\ \E R \in {setDrawings(Running(<<NewNode(LayerName, EmptyId, TRUE, NoNode)>>),
                              serialize(S.N),
                              [given |-> TRUE, map |-> S.drawingsDetails])} :
       /\ Len(R.N) <= MaxNodes
       /\ nodes' = R.N
       /\ currentPosGroupId' = NullId
       /\ cmds' = R.cmds
       /\ cursor' = Len(R.cmds)
       /\ made' = Len(R.cmds)
       /\ last' = [op |-> "reload", ok |-> R.ok,
                   before |-> D.list, beforeTexts |-> labelTexts(nodes),
                   after |-> getDrawDisplayDetails(R.N), afterTexts |-> labelTexts(R.N)]

GetDrawDisplayDetails ==
  /\ \E D \in {getDrawDisplayDetails(nodes)} :
       last' = [op |-> "listDisplayDetails", ok |-> D.ok, list |-> D.list]
  /\ UNCHANGED <<nodes, currentPosGroupId, cmds, cursor, made>>

NextDetails ==
  \/ LoadDetails
  \/ UpdateDraw
  \/ GetDrawDisplayDetails
  \/ GetDrawStoreDetails
  \/ Reload

SpecDetails == Init /\ [][NextDetails]_vars

\* whether a name contains a word
contains(name, word) ==
  \E i \in 1..Len(name) : i + Len(word) - 1 <= Len(name) /\ SubSeq(name, i, i + Len(word) - 1) = word

\* the annotation groups of the tree in the order of the listing
listed(N) == kidsOfAll(N, getChildren(N, konvaLayer))

\* C15: in a listing that returned, the type of every annotation group is:
\* Roi for a closed Line, with or without decorations; for an open Line
\* with decorations Arrow if the first decoration's name contains
\* 'triangle', else Protractor if it contains 'arc', else Ruler; Line for an
\* open Line without decoration; Rectangle for Rect; the class as it is for
\* any other
C15_Classification ==
  (last.op = "listDisplayDetails" /\ last.ok) =>
    /\ Len(last.list) = Len(listed(nodes))
    /\ \A i \in DOMAIN last.list :
         LET d == nodes[listed(nodes)[i]].draw
             type == last.list[i].type
         IN /\ (d.className = "Line" /\ d.closed) => type = "Roi"
            /\ (d.className = "Line" /\ ~d.closed /\ d.extras # <<>>) =>
                 type = (IF contains(d.extras[1], "triangle") THEN "Arrow"
                         ELSE IF contains(d.extras[1], "arc") THEN "Protractor"
                         ELSE "Ruler")
            /\ (d.className = "Line" /\ ~d.closed /\ d.extras = <<>>) => type = "Line"
            /\ d.className = "Rect" => type = "Rectangle"
            /\ d.className \notin {"Line", "Rect"} => type = d.className

C15_Witness ==
  /\ last.op = "listDisplayDetails"
  /\ last.ok
  /\ \E i \in DOMAIN last.list :
       /\ last.list[i].type = "Ruler"
       /\ Len(nodes[listed(nodes)[i]].draw.extras) = 2

\* C16 as stated: after an updateAnnotation that found its group and
\* completed, with new metadata the label is hidden if and only if the text
\* expanded from the new template and quantification is empty; with a
\* colour only and a text whose textExpr is not empty, the label is visible
C16_LabelVisibleAfterColour ==
  [][(last'.op = "updateAnnotation" /\ last'.ok /\ last'.found # NoNode)
     => LET g == last'.found
        IN /\ last'.meta # NoMeta =>
                (~nodes'[g].draw.labelVisible <=> expanded(last'.meta) = "")
           /\ (/\ last'.meta = NoMeta
               /\ nodes[g].meta # NoMeta
               /\ MetaTable[nodes[g].meta].textExpr # "") =>
                nodes'[g].draw.labelVisible]_vars

\* C16 amended: after an updateAnnotation that found its group and
\* completed, with new metadata the text is the expansion of the new
\* template and the label is hidden if and only if that text is empty; with
\* a colour only, the label's visibility, the text and the metadata are
\* what they were
C16_LabelVisibility ==
  [][(last'.op = "updateAnnotation" /\ last'.ok /\ last'.found # NoNode)
     => LET g == last'.found
        IN /\ last'.meta # NoMeta =>
                /\ nodes'[g].text = expanded(last'.meta)
                /\ ~nodes'[g].draw.labelVisible <=> expanded(last'.meta) = ""
           /\ last'.meta = NoMeta =>
                /\ nodes'[g].draw.labelVisible = nodes[g].draw.labelVisible
                /\ nodes'[g].text = nodes[g].text
                /\ nodes'[g].meta = nodes[g].meta]_vars

C16_Witness ==
  /\ last.op = "updateAnnotation"
  /\ last.ok
  /\ last.found # NoNode
  /\ last.meta = "mEmpty"
  /\ ~nodes[last.found].draw.labelVisible
  /\ nodes[last.found].text = ""

\* C18: listStoredDetails returns for every tree; the map has one entry per
\* annotation group under a position group, under the group's id, holding
\* the meta of the group's first text (stated for groups that share no id);
\* every group whose texts are not exactly one is logged; afterwards no
\* annotation group has an anchor
C18_StoredDetailsComplete ==
  [][last'.op = "listStoredDetails"
     => LET groups == liveGroups(nodes)
        IN /\ last'.ok
           /\ DOMAIN last'.drawingsDetails = {nodes[g].id : g \in groups}
           /\ (\A g, h \in groups : nodes[g].id = nodes[h].id => g = h) =>
                \A g \in groups :
                  /\ texts(nodes, g) # <<>>
                  /\ last'.drawingsDetails[nodes[g].id] = texts(nodes, g)[1]
           /\ last'.warned = Cardinality({g \in groups : Len(texts(nodes, g)) # 1})
           /\ \A g \in liveGroups(nodes') : nodes'[g].draw.anchors = 0]_vars

\* C19: updateAnnotation adds no node, removes none and re-parents none,
\* changes the visible flag of no node of the tree (the label's own flag is
\* an attribute inside the group), changes only the node found with the id
\* of the details, and when no node of the tree has that id changes nothing
\* and requests no redraw
C19_UpdateFrame ==
  [][last'.op = "updateAnnotation"
     => /\ DOMAIN nodes' = DOMAIN nodes
        /\ \A n \in DOMAIN nodes :
             /\ nodes'[n].parent = nodes[n].parent
             /\ nodes'[n].kids = nodes[n].kids
             /\ nodes'[n].name = nodes[n].name
             /\ nodes'[n].id = nodes[n].id
             /\ nodes'[n].visible = nodes[n].visible
             /\ isPositionNode(nodes, n) => nodes'[n] = nodes[n]
             /\ nodes'[n] # nodes[n] =>
                  /\ nodes[n].id = last'.id
                  /\ inTree(nodes, n)
                  /\ n = last'.found
        /\ ~idInTree(nodes, last'.id) =>
             /\ nodes' = nodes
             /\ last'.draws = 0
             /\ last'.found = NoNode]_vars

C19_Witness ==
  /\ last.op = "updateAnnotation"
  /\ last.ok
  /\ last.found # NoNode
  /\ last.draws = 1
  /\ nodes[last.found].draw.stroke = last.color
  /\ \E g \in liveGroups(nodes) : g # last.found /\ nodes[g].draw.stroke # last.color

\* C14: a tree whose listings return and whose annotation groups share no
\* id, stored and loaded again into a new controller: the listing of the
\* tree the load leaves returns and has, for every entry of the
\* listing of the original, an entry with the same id, type, color and
\* meta, and every text of the original is the text of the group with the
\* same id in the new tree
C14_RoundTrip ==
  (/\ last.op = "reload"
   /\ \A i, j \in DOMAIN last.before : last.before[i].id = last.before[j].id => i = j)
  => /\ last.after.ok
     /\ \A i \in DOMAIN last.before :
          \E j \in DOMAIN last.after.list :
            /\ last.after.list[j].id = last.before[i].id
            /\ last.after.list[j].type = last.before[i].type
            /\ last.after.list[j].color = last.before[i].color
            /\ last.after.list[j].meta = last.before[i].meta
     /\ \A i \in DOMAIN last.beforeTexts :
          \E j \in DOMAIN last.afterTexts : last.afterTexts[j] = last.beforeTexts[i]
====
